---- MODULE Spec2Model ----
(***************************************************************************)
(* A model of the JSON store (src/store/useJson.ts) and of the node modal  *)
(* (NodeModal) of the JSON visualiser.                                     *)
(*                                                                         *)
(* Texts (the stored json, the editor contents, the modal's draft) are     *)
(* sequences of one-character strings, so that JSON.parse, JSON.stringify  *)
(* and trim are computed character by character. The alphabet of the model *)
(* is: the JSON punctuation, the digits, the letters of the literals and   *)
(* of the keys, the double quote, the backslash, space, tab and newline.   *)
(* Numbers are non-negative integers (no sign, fraction or exponent).      *)
(***************************************************************************)
EXTENDS Integers, Sequences, FiniteSets, TLC

(***************************************************************************)
(* JavaScript values                                                       *)
(***************************************************************************)
JNull == [t |-> "null"]
JBool(b) == [t |-> "bool", b |-> b]
JNum(n) == [t |-> "num", n |-> n]
JStr(s) == [t |-> "str", s |-> s]
JArr(items) == [t |-> "arr", items |-> items]
JObj(keys, vals) == [t |-> "obj", keys |-> keys, vals |-> vals]
\* the value a read of an absent property yields
Undefined == [t |-> "undefined"]
\* an array element that was never assigned (arr[2] = v on a shorter array)
Hole == [t |-> "hole"]

\* a path segment: a number or a string
NumSeg(n) == [k |-> "num", n |-> n]
StrSeg(s) == [k |-> "str", s |-> s]

Digits == <<"0", "1", "2", "3", "4", "5", "6", "7", "8", "9">>
DigitSet == {Digits[i] : i \in 1..10}
WhiteSpace == {" ", "\n", "\t", "\r"}

\* `${n}` for a non-negative integer: its decimal digits
RECURSIVE NumberToString(_)
NumberToString(n) ==
  IF n < 10 THEN <<Digits[n + 1]>>
  ELSE NumberToString(n \div 10) \o <<Digits[(n % 10) + 1]>>

DigitValue(c) == CHOOSE d \in 0..9 : Digits[d + 1] = c

RECURSIVE StringToNumber(_)
StringToNumber(s) ==
  IF Len(s) = 0 THEN 0
  ELSE 10 * StringToNumber(SubSeq(s, 1, Len(s) - 1)) + DigitValue(s[Len(s)])

\* obj[key]: a number used as a property key is converted to its string
ToPropertyKey(seg) == IF seg.k = "num" THEN NumberToString(seg.n) ELSE seg.s

\* a property key that is a canonical array index ("0", "12", not "01", not "a")
IsArrayIndex(key) ==
  /\ Len(key) > 0
  /\ \A i \in 1..Len(key) : key[i] \in DigitSet
  /\ (Len(key) > 1 => key[1] # "0")

IndexOfKey(keys, key) ==
  IF \E i \in 1..Len(keys) : keys[i] = key
  THEN CHOOSE i \in 1..Len(keys) : keys[i] = key
  ELSE 0

\* String.prototype.trim
RECURSIVE TrimStart(_)
TrimStart(s) ==
  IF Len(s) > 0 /\ s[1] \in WhiteSpace THEN TrimStart(Tail(s)) ELSE s

RECURSIVE TrimEnd(_)
TrimEnd(s) ==
  IF Len(s) > 0 /\ s[Len(s)] \in WhiteSpace
  THEN TrimEnd(SubSeq(s, 1, Len(s) - 1)) ELSE s

trim(s) == TrimEnd(TrimStart(s))

(***************************************************************************)
(* Property read and write, as cursor[key] and cursor[key] = v do them     *)
(***************************************************************************)
\* cursor[key]: [ok |-> FALSE] is the TypeError of a read on null
JsGet(cursor, seg) ==
  LET key == ToPropertyKey(seg) IN
  CASE cursor.t = "obj" ->
         LET i == IndexOfKey(cursor.keys, key) IN
         [ok |-> TRUE, v |-> IF i = 0 THEN Undefined ELSE cursor.vals[i]]
    [] cursor.t = "arr" ->
         [ok |-> TRUE,
          v |-> IF IsArrayIndex(key) /\ StringToNumber(key) < Len(cursor.items)
                  /\ cursor.items[StringToNumber(key) + 1] # Hole
                THEN cursor.items[StringToNumber(key) + 1]
                ELSE Undefined]
    [] cursor.t = "str" ->
         [ok |-> TRUE,
          v |-> IF IsArrayIndex(key) /\ StringToNumber(key) < Len(cursor.s)
                THEN JStr(<<cursor.s[StringToNumber(key) + 1]>>)
                ELSE Undefined]
    [] cursor.t \in {"num", "bool"} -> [ok |-> TRUE, v |-> Undefined]
    [] OTHER -> [ok |-> FALSE]

\* the position of a new key among an object's keys: integer keys come first,
\* in ascending order, then the other keys in insertion order
RECURSIVE InsertPos(_, _, _)
InsertPos(keys, key, i) ==
  IF i > Len(keys) THEN i
  ELSE IF ~IsArrayIndex(keys[i]) THEN
         (IF IsArrayIndex(key) THEN i ELSE InsertPos(keys, key, i + 1))
  ELSE IF IsArrayIndex(key) /\ StringToNumber(key) < StringToNumber(keys[i])
         THEN i
  ELSE InsertPos(keys, key, i + 1)

InsertAt(s, i, e) == SubSeq(s, 1, i - 1) \o <<e>> \o SubSeq(s, i, Len(s))

ObjSet(obj, key, v) ==
  LET i == IndexOfKey(obj.keys, key) IN
  IF i # 0 THEN JObj(obj.keys, [obj.vals EXCEPT ![i] = v])
  ELSE LET p == IF IsArrayIndex(key) THEN InsertPos(obj.keys, key, 1)
                ELSE Len(obj.keys) + 1
       IN JObj(InsertAt(obj.keys, p, key), InsertAt(obj.vals, p, v))

\* a variant of ArrSet: the value is spliced in at the index, and the items
\* from there on move up by one
ArrSetSplice(arr, key, v) ==
  IF IsArrayIndex(key) /\ StringToNumber(key) < Len(arr.items)
  THEN JArr(InsertAt(arr.items, StringToNumber(key) + 1, v))
  ELSE IF IsArrayIndex(key) THEN JArr(Append(arr.items, v))
  ELSE arr

ArrSet(arr, key, v) ==
  IF IsArrayIndex(key) THEN
    LET n == StringToNumber(key) IN
    JArr([i \in 1..(IF n + 1 > Len(arr.items) THEN n + 1 ELSE Len(arr.items)) |->
            IF i = n + 1 THEN v
            ELSE IF i <= Len(arr.items) THEN arr.items[i]
            ELSE Hole])
  ELSE arr  \* a non-index property of the array: JSON.stringify never writes it

\* cursor[key] = v in a module (strict mode): a TypeError on null and on a
\* primitive
JsSet(cursor, seg, v) ==
  CASE cursor.t = "obj" -> [ok |-> TRUE, v |-> ObjSet(cursor, ToPropertyKey(seg), v)]
    [] cursor.t = "arr" -> [ok |-> TRUE, v |-> ArrSet(cursor, ToPropertyKey(seg), v)]
    [] OTHER -> [ok |-> FALSE]

(***************************************************************************)
(* JSON.stringify(value, null, 2)                                          *)
(***************************************************************************)
RECURSIVE Spaces(_)
Spaces(n) == IF n = 0 THEN <<>> ELSE <<" ">> \o Spaces(n - 1)

RECURSIVE EscapeChars(_)
EscapeChars(s) ==
  IF Len(s) = 0 THEN <<>>
  ELSE (CASE s[1] = "\"" -> <<"\\", "\"">>
          [] s[1] = "\\" -> <<"\\", "\\">>
          [] s[1] = "\n" -> <<"\\", "n">>
          [] s[1] = "\t" -> <<"\\", "t">>
          [] s[1] = "\r" -> <<"\\", "r">>
          [] OTHER -> <<s[1]>>) \o EscapeChars(Tail(s))

Quote(s) == <<"\"">> \o EscapeChars(s) \o <<"\"">>

RECURSIVE StringifyAt(_, _)
RECURSIVE StringifyItems(_, _, _)
RECURSIVE StringifyMembers(_, _, _)
StringifyAt(v, ind) ==
  CASE v.t \in {"null", "hole", "undefined"} -> <<"n", "u", "l", "l">>
    [] v.t = "bool" -> IF v.b THEN <<"t", "r", "u", "e">>
                       ELSE <<"f", "a", "l", "s", "e">>
    [] v.t = "num" -> NumberToString(v.n)
    [] v.t = "str" -> Quote(v.s)
    [] v.t = "arr" ->
         IF Len(v.items) = 0 THEN <<"[", "]">>
         ELSE <<"[", "\n">> \o StringifyItems(v.items, 1, ind + 2)
              \o <<"\n">> \o Spaces(ind) \o <<"]">>
    [] v.t = "obj" ->
         IF Len(v.keys) = 0 THEN <<"{", "}">>
         ELSE <<"{", "\n">> \o StringifyMembers(v, 1, ind + 2)
              \o <<"\n">> \o Spaces(ind) \o <<"}">>
StringifyItems(items, i, ind) ==
  Spaces(ind) \o StringifyAt(items[i], ind)
  \o (IF i = Len(items) THEN <<>>
      ELSE <<",", "\n">> \o StringifyItems(items, i + 1, ind))
StringifyMembers(obj, i, ind) ==
  Spaces(ind) \o Quote(obj.keys[i]) \o <<":", " ">> \o StringifyAt(obj.vals[i], ind)
  \o (IF i = Len(obj.keys) THEN <<>>
      ELSE <<",", "\n">> \o StringifyMembers(obj, i + 1, ind))

JSON_stringify(v) == StringifyAt(v, 0)

(***************************************************************************)
(* JSON.parse(text)                                                        *)
(***************************************************************************)
ParseFail == [ok |-> FALSE]
Parsed(v, i) == [ok |-> TRUE, v |-> v, i |-> i]

RECURSIVE SkipWs(_, _)
SkipWs(s, i) ==
  IF i <= Len(s) /\ s[i] \in WhiteSpace THEN SkipWs(s, i + 1) ELSE i

HasAt(s, i, word) ==
  /\ i + Len(word) - 1 <= Len(s)
  /\ SubSeq(s, i, i + Len(word) - 1) = word

RECURSIVE DigitsEnd(_, _)
DigitsEnd(s, i) ==
  IF i <= Len(s) /\ s[i] \in DigitSet THEN DigitsEnd(s, i + 1) ELSE i

ParseNumber(s, i) ==
  LET e == DigitsEnd(s, i) IN
  IF s[i] = "0" /\ e > i + 1 THEN Parsed(JNum(0), i + 1)
  ELSE Parsed(JNum(StringToNumber(SubSeq(s, i, e - 1))), e)

RECURSIVE ParseString(_, _, _)
ParseString(s, i, acc) ==
  IF i > Len(s) THEN ParseFail
  ELSE IF s[i] = "\"" THEN Parsed(acc, i + 1)
  ELSE IF s[i] \in {"\n", "\t", "\r"} THEN ParseFail
  ELSE IF s[i] = "\\" THEN
    IF i + 1 > Len(s) THEN ParseFail
    ELSE CASE s[i + 1] = "\"" -> ParseString(s, i + 2, Append(acc, "\""))
           [] s[i + 1] = "\\" -> ParseString(s, i + 2, Append(acc, "\\"))
           [] s[i + 1] = "n" -> ParseString(s, i + 2, Append(acc, "\n"))
           [] s[i + 1] = "t" -> ParseString(s, i + 2, Append(acc, "\t"))
           [] s[i + 1] = "r" -> ParseString(s, i + 2, Append(acc, "\r"))
           [] OTHER -> ParseFail
  ELSE ParseString(s, i + 1, Append(acc, s[i]))

RECURSIVE ParseValue(_, _)
RECURSIVE ParseItems(_, _, _)
RECURSIVE ParseMembers(_, _, _)
ParseValue(s, i0) ==
  LET i == SkipWs(s, i0) IN
  IF i > Len(s) THEN ParseFail
  ELSE CASE s[i] = "{" ->
              IF SkipWs(s, i + 1) <= Len(s) /\ s[SkipWs(s, i + 1)] = "}"
              THEN Parsed(JObj(<<>>, <<>>), SkipWs(s, i + 1) + 1)
              ELSE ParseMembers(s, i + 1, JObj(<<>>, <<>>))
         [] s[i] = "[" ->
              IF SkipWs(s, i + 1) <= Len(s) /\ s[SkipWs(s, i + 1)] = "]"
              THEN Parsed(JArr(<<>>), SkipWs(s, i + 1) + 1)
              ELSE ParseItems(s, i + 1, <<>>)
         [] s[i] = "\"" ->
              LET r == ParseString(s, i + 1, <<>>) IN
              IF r.ok THEN Parsed(JStr(r.v), r.i) ELSE ParseFail
         [] s[i] \in DigitSet -> ParseNumber(s, i)
         [] HasAt(s, i, <<"t", "r", "u", "e">>) -> Parsed(JBool(TRUE), i + 4)
         [] HasAt(s, i, <<"f", "a", "l", "s", "e">>) -> Parsed(JBool(FALSE), i + 5)
         [] HasAt(s, i, <<"n", "u", "l", "l">>) -> Parsed(JNull, i + 4)
         [] OTHER -> ParseFail
\* the items of an array, from the first one on, up to the closing bracket
ParseItems(s, i, acc) ==
  LET r == ParseValue(s, i) IN
  IF ~r.ok THEN ParseFail
  ELSE LET j == SkipWs(s, r.i) IN
       IF j > Len(s) THEN ParseFail
       ELSE IF s[j] = "," THEN ParseItems(s, j + 1, Append(acc, r.v))
       ELSE IF s[j] = "]" THEN Parsed(JArr(Append(acc, r.v)), j + 1)
       ELSE ParseFail
\* the members of an object; a repeated key keeps its place and takes the
\* last value
ParseMembers(s, i0, obj) ==
  LET i == SkipWs(s, i0) IN
  IF i > Len(s) \/ s[i] # "\"" THEN ParseFail
  ELSE LET k == ParseString(s, i + 1, <<>>) IN
       IF ~k.ok THEN ParseFail
       ELSE LET c == SkipWs(s, k.i) IN
            IF c > Len(s) \/ s[c] # ":" THEN ParseFail
            ELSE LET r == ParseValue(s, c + 1) IN
                 IF ~r.ok THEN ParseFail
                 ELSE LET j == SkipWs(s, r.i) IN
                      IF j > Len(s) THEN ParseFail
                      ELSE IF s[j] = ","
                        THEN ParseMembers(s, j + 1, ObjSet(obj, k.v, r.v))
                      ELSE IF s[j] = "}"
                        THEN Parsed(ObjSet(obj, k.v, r.v), j + 1)
                      ELSE ParseFail

\* nothing but white space may follow the value
ParseEnd(s, r) ==
  IF r.ok /\ SkipWs(s, r.i) > Len(s) THEN [ok |-> TRUE, v |-> r.v]
  ELSE [ok |-> FALSE]

\* [ok |-> FALSE] is the SyntaxError
JSON_parse(s) == ParseEnd(s, ParseValue(s, 1))

(***************************************************************************)
(* Bounds and inputs                                                       *)
(***************************************************************************)
\* calls of updateValueAtPath on one document before it is loaded afresh
MaxCalls == 1
\* saves written to the left editor before its text is typed afresh
MaxEdits == 1
\* the longest path handed to jsonPathToString
MaxRenderLen == 3

KeyA == <<"a">>
KeyB == <<"b">>
Key0 == <<"0">>
Fruits == <<"f", "r", "u", "i", "t", "s">>

Segs == {NumSeg(0), NumSeg(1), StrSeg(KeyA), StrSeg(Key0)}
RenderSegs == {NumSeg(0), NumSeg(7), NumSeg(12), StrSeg(KeyA), StrSeg(Fruits)}

RECURSIVE SeqsUpTo(_, _)
SeqsUpTo(S, n) ==
  IF n = 0 THEN {<<>>}
  ELSE LET shorter == SeqsUpTo(S, n - 1) IN
       shorter \cup {Append(q, e) : q \in shorter, e \in S}

\* a path argument: path |-> segments, or the argument left out (undefined)
Path(segs) == [def |-> TRUE, segs |-> segs]
NoPath == [def |-> FALSE, segs |-> <<>>]
\* the paths handed to updateValueAtPath: every path of one or two segments,
\* and four of three segments that reach into the nested documents
DeepPaths ==
  { <<StrSeg(KeyA), StrSeg(KeyB), NumSeg(0)>>,
    <<StrSeg(KeyA), StrSeg(KeyB), StrSeg(KeyA)>>,
    <<StrSeg(KeyA), StrSeg(KeyA), StrSeg(KeyA)>>,
    <<NumSeg(0), NumSeg(0), NumSeg(0)>> }
PathInputs ==
  {NoPath, Path(<<>>)} \cup {Path(<<a>>) : a \in Segs}
    \cup {Path(<<a, b>>) : a \in Segs, b \in Segs}
    \cup {Path(q) : q \in DeepPaths}
RenderInputs == {NoPath} \cup {Path(q) : q \in SeqsUpTo(RenderSegs, MaxRenderLen)}

EmptyObj == JObj(<<>>, <<>>)
DocValues ==
  { EmptyObj,
    JObj(<<KeyA>>, <<JNum(1)>>),
    JObj(<<KeyA>>, <<JObj(<<KeyA, KeyB>>, <<JNum(1), JArr(<<JNum(1)>>)>>)>>),
    JArr(<<JStr(<<"1">>), JNum(1)>>),
    JObj(<<Key0, KeyA>>, <<JNum(1), JStr(<<"x">>)>>),
    JObj(<<KeyA, KeyB>>, <<JNull, JBool(TRUE)>>),
    JArr(<<JArr(<<JNum(1)>>), JObj(<<KeyA>>, <<JStr(<<"x">>)>>)>>),
    JObj(<<KeyA>>, <<JObj(<<KeyB>>, <<JObj(<<KeyA>>, <<JNum(1)>>)>>)>>),
    JNum(1) }
\* {"a":[1]} without white space, two texts that do not parse, two blank ones
CompactText == <<"{", "\"", "a", "\"", ":", "[", "1", "]", "}">>
BrokenTexts == {<<"{">>, <<"{", "\"", "a", "\"", ":">>}
BlankTexts == {<<>>, <<" ", "\n">>}
DocTexts ==
  {JSON_stringify(v) : v \in DocValues} \cup {CompactText} \cup BrokenTexts
    \cup BlankTexts

\* the texts typed into the left editor under the modal
ModalTexts ==
  { JSON_stringify(
      JObj(<<KeyA>>, <<JObj(<<KeyA, KeyB>>, <<JNum(1), JArr(<<JNum(1)>>)>>)>>)),
    JSON_stringify(JArr(<<JStr(<<"1">>), JNum(1)>>)),
    JSON_stringify(JObj(<<KeyA, KeyB>>, <<JNull, JBool(TRUE)>>)),
    JSON_stringify(
      JObj(<<KeyA>>, <<JObj(<<KeyB>>, <<JObj(<<KeyA>>, <<JNum(1)>>)>>)>>)),
    <<"{">>,
    <<>> }

NewValues == {JNum(7), JArr(<<>>), JObj(<<KeyA>>, <<JNull>>)}

\* what the user may type into the modal's textarea
DraftInputs ==
  {<<" ">>, <<"7">>, <<"v">>, JSON_stringify(JObj(<<KeyA>>, <<JNum(7)>>))}

(***************************************************************************)
(* State                                                                   *)
(***************************************************************************)
VARIABLES
  json,             \* useJson: the stored document text
  loading,          \* useJson: loading
  graph,            \* useGraph: the last call made on the graph store
  contents,         \* useFile: the left editor's text (getContents)
  nodeData,         \* useGraph: selectedNode, as the modal reads it
  isEditing,        \* NodeModal state
  originalContent,  \* NodeModal state
  draft,            \* NodeModal state
  error,            \* NodeModal state
  pathArg,          \* the argument of jsonPathToString
  pathText,         \* its result, once rendered
  calls,            \* calls of updateValueAtPath since the last setJson or clear
  edits,            \* saves written since the left editor was typed into
  last,             \* the store's last call, when it was updateValueAtPath
  lastSave          \* the modal's last handler, when it was handleSave

storeVars == <<json, loading, graph>>
modalVars == <<contents, nodeData, isEditing, originalContent, draft, error>>
pathVars == <<pathArg, pathText>>
vars == <<json, loading, graph, contents, nodeData, isEditing, originalContent,
          draft, error, pathArg, pathText, calls, edits, last, lastSave>>

NoCall == [op |-> "none"]
NoGraphCall == [op |-> "none", json |-> <<>>]
NullNode == [isNull |-> TRUE, text |-> <<>>, path |-> NoPath]
Node(text, path) == [isNull |-> FALSE, text |-> text, path |-> path]
NoError == [isNull |-> TRUE, msg |-> ""]
Error(msg) == [isNull |-> FALSE, msg |-> msg]
NoKey == [some |-> FALSE, s |-> <<>>]
Key(s) == [some |-> TRUE, s |-> s]
Row(key, value, type) == [key |-> key, value |-> value, type |-> type]

IsBlank(text) == Len(trim(text)) = 0

(***************************************************************************)
(* useJson                                                                 *)
(***************************************************************************)
initialStates == [json |-> <<"{", "}">>, loading |-> TRUE]

\* a variant of setJsonCall: the graph store is not told
setJsonCallNoGraph(j) ==
  /\ json' = j
  /\ loading' = FALSE
  /\ graph' = graph

\* the body of setJson, also called by updateValueAtPath
setJsonCall(j) ==
  /\ json' = j
  /\ loading' = FALSE
  /\ graph' = [op |-> "setGraph", json |-> j]

setJson(j) ==
  /\ setJsonCall(j)
  /\ calls' = 0
  /\ last' = NoCall
  /\ UNCHANGED <<modalVars, pathVars, edits, lastSave>>

clear ==
  /\ json' = <<>>
  /\ loading' = FALSE
  /\ graph' = [op |-> "clearGraph", json |-> <<>>]
  /\ calls' = 0
  /\ last' = NoCall
  /\ UNCHANGED <<modalVars, pathVars, edits, lastSave>>

\* a variant of updateWalk: the container that was assigned to is kept
\* in place of the whole clone
RECURSIVE updateWalkCursor(_, _, _, _)
updateWalkCursor(cursor, path, i, newValue) ==
  IF i = Len(path) THEN
    LET w == JsSet(cursor, path[i], newValue) IN
    IF w.ok THEN [st |-> "ok", v |-> w.v] ELSE [st |-> "throw"]
  ELSE
    LET g == JsGet(cursor, path[i]) IN
    IF ~g.ok THEN [st |-> "throw"]
    ELSE IF g.v = Undefined THEN [st |-> "return"]
    ELSE updateWalkCursor(g.v, path, i + 1, newValue)

\* a variant of updateWalk: an absent intermediate key is created as {}
RECURSIVE updateWalkCreate(_, _, _, _)
updateWalkCreate(cursor, path, i, newValue) ==
  IF i = Len(path) THEN
    LET w == JsSet(cursor, path[i], newValue) IN
    IF w.ok THEN [st |-> "ok", v |-> w.v] ELSE [st |-> "throw"]
  ELSE
    LET g == JsGet(cursor, path[i]) IN
    IF ~g.ok THEN [st |-> "throw"]
    ELSE LET r == updateWalkCreate(IF g.v = Undefined THEN EmptyObj ELSE g.v,
                                   path, i + 1, newValue) IN
         IF r.st = "ok" /\ JsSet(cursor, path[i], r.v).ok
         THEN [st |-> "ok", v |-> JsSet(cursor, path[i], r.v).v]
         ELSE [st |-> "throw"]

\* the walk to the parent and the assignment at the last key; the clone is
\* mutated in place, so the write shows in every container on the way
RECURSIVE updateWalk(_, _, _, _)
updateWalk(cursor, path, i, newValue) ==
  IF i = Len(path) THEN
    LET w == JsSet(cursor, path[i], newValue) IN
    IF w.ok THEN [st |-> "ok", v |-> w.v] ELSE [st |-> "throw"]
  ELSE
    LET g == JsGet(cursor, path[i]) IN
    IF ~g.ok THEN [st |-> "throw"]
    ELSE IF g.v = Undefined THEN [st |-> "return"]
    ELSE LET r == updateWalk(g.v, path, i + 1, newValue) IN
         IF r.st = "ok"
         THEN [st |-> "ok", v |-> JsSet(cursor, path[i], r.v).v]
         ELSE r

\* the end of the try block: the text is written with setJson
updateWritten(w) ==
  IF w.st = "ok" THEN [st |-> "setJson", json |-> JSON_stringify(w.v)] ELSE w

updateCloned(cloned, path, newValue) ==
  IF ~cloned.ok THEN [st |-> "throw"]
  ELSE updateWritten(updateWalk(cloned.v, path, 1, newValue))

updateParsed(root, path, newValue) ==
  IF ~root.ok THEN [st |-> "throw"]
  ELSE updateCloned(JSON_parse(JSON_stringify(root.v)), path, newValue)

\* the try block
updateTry(current, path, newValue) ==
  updateParsed(JSON_parse(current), path, newValue)

\* the catch block
updateCatch(outcome) ==
  IF outcome.st = "throw" THEN [st |-> "return"] ELSE outcome

\* what a call does: "setJson" with the new text, "return", or "throw" when
\* an exception leaves the function
updateValueAtPathOutcome(current, path, newValue) ==
  IF ~path.def \/ Len(path.segs) = 0 \/ IsBlank(current)
  THEN [st |-> "return"]
  ELSE updateCatch(updateTry(current, path.segs, newValue))

updateEffect(path, newValue, o) ==
  /\ IF o.st = "setJson"
     THEN setJsonCall(o.json)
     ELSE UNCHANGED <<json, loading, graph>>
  /\ last' = [op |-> "updateValueAtPath", path |-> path, value |-> newValue,
              pre |-> [json |-> json, loading |-> loading, graph |-> graph],
              st |-> o.st]

updateValueAtPath(path, newValue) ==
  /\ calls < MaxCalls
  /\ calls' = calls + 1
  /\ updateEffect(path, newValue,
                  updateValueAtPathOutcome(json, path, newValue))
  /\ UNCHANGED <<modalVars, pathVars, edits, lastSave>>

(***************************************************************************)
(* NodeModal                                                               *)
(***************************************************************************)
Truthy(key) == key.some /\ Len(key.s) > 0

RECURSIVE ScalarRows(_, _, _)
ScalarRows(rows, i, obj) ==
  IF i > Len(rows) THEN obj
  ELSE ScalarRows(rows, i + 1,
         IF Truthy(rows[i].key) /\ rows[i].type \notin {"array", "object"}
         THEN ObjSet(obj, rows[i].key.s, rows[i].value)
         ELSE obj)

buildContentFromNode(node) ==
  IF node.isNull \/ Len(node.text) = 0 THEN <<>>
  ELSE IF Len(node.text) = 1 /\ ~Truthy(node.text[1].key) THEN
    LET v == node.text[1].value IN
    IF v.t = "str" THEN v.s ELSE JSON_stringify(v)
  ELSE LET obj == ScalarRows(node.text, 1, EmptyObj) IN
       IF Len(obj.keys) > 0 THEN JSON_stringify(obj) ELSE <<>>

RECURSIVE Join(_, _)
Join(parts, sep) ==
  IF Len(parts) = 0 THEN <<>>
  ELSE IF Len(parts) = 1 THEN parts[1]
  ELSE parts[1] \o sep \o Join(Tail(parts), sep)

\* a variant of jsonPathToString: string keys are not quoted
jsonPathToStringBare(path) ==
  IF ~path.def \/ Len(path.segs) = 0 THEN <<"$">>
  ELSE LET segments == [i \in 1..Len(path.segs) |->
                          ToPropertyKey(path.segs[i])]
       IN <<"$", "[">> \o Join(segments, <<"]", "[">>) \o <<"]">>

jsonPathToString(path) ==
  IF ~path.def \/ Len(path.segs) = 0 THEN <<"$">>
  ELSE LET segments == [i \in 1..Len(path.segs) |->
                          IF path.segs[i].k = "num"
                          THEN NumberToString(path.segs[i].n)
                          ELSE <<"\"">> \o path.segs[i].s \o <<"\"">>]
       IN <<"$", "[">> \o Join(segments, <<"]", "[">>) \o <<"]">>

\* a variant of SyncEffect: the error of the node shown before stays
SyncEffectKeepError(node) ==
  /\ originalContent' = buildContentFromNode(node)
  /\ draft' = buildContentFromNode(node)
  /\ error' = error

\* the effect that runs when the selected node changes
SyncEffect(node) ==
  /\ originalContent' = buildContentFromNode(node)
  /\ draft' = buildContentFromNode(node)
  /\ error' = NoError

handleEdit ==
  /\ ~isEditing
  /\ isEditing' = TRUE
  /\ draft' = originalContent
  /\ error' = NoError
  /\ lastSave' = NoCall
  /\ UNCHANGED <<storeVars, pathVars, contents, nodeData, originalContent,
                 calls, edits, last>>

handleCancel ==
  /\ isEditing
  /\ isEditing' = FALSE
  /\ draft' = originalContent
  /\ error' = NoError
  /\ lastSave' = NoCall
  /\ UNCHANGED <<storeVars, pathVars, contents, nodeData, originalContent,
                 calls, edits, last>>

handleClose ==
  /\ isEditing' = FALSE
  /\ draft' = originalContent
  /\ error' = NoError
  /\ lastSave' = NoCall
  /\ UNCHANGED <<storeVars, pathVars, contents, nodeData, originalContent,
                 calls, edits, last>>

\* the textarea's onChange
setDraft(text) ==
  /\ isEditing
  /\ draft' = text
  /\ lastSave' = NoCall
  /\ UNCHANGED <<storeVars, pathVars, contents, nodeData, isEditing,
                 originalContent, error, calls, edits, last>>

\* the parse of the edited content, the raw draft when it does not parse
saveParsed(p, text) == IF p.ok THEN p.v ELSE JStr(text)

saveNewValue(text) == saveParsed(JSON_parse(trim(text)), text)

\* a variant of saveWalk: an absent intermediate key is created as {}
RECURSIVE saveWalkCreate(_, _, _, _)
saveWalkCreate(cursor, path, i, newValue) ==
  IF i = Len(path) THEN
    LET w == JsSet(cursor, path[i], newValue) IN
    IF w.ok THEN [st |-> "ok", v |-> w.v] ELSE [st |-> "throw"]
  ELSE
    LET g == JsGet(cursor, path[i]) IN
    IF ~g.ok THEN [st |-> "throw"]
    ELSE LET r == saveWalkCreate(IF g.v = Undefined THEN EmptyObj ELSE g.v,
                                 path, i + 1, newValue) IN
         IF r.st = "ok" /\ JsSet(cursor, path[i], r.v).ok
         THEN [st |-> "ok", v |-> JsSet(cursor, path[i], r.v).v]
         ELSE [st |-> "throw"]

RECURSIVE saveWalk(_, _, _, _)
saveWalk(cursor, path, i, newValue) ==
  IF i = Len(path) THEN
    LET w == JsSet(cursor, path[i], newValue) IN
    IF w.ok THEN [st |-> "ok", v |-> w.v] ELSE [st |-> "throw"]
  ELSE
    LET g == JsGet(cursor, path[i]) IN
    IF ~g.ok THEN [st |-> "throw"]
    ELSE IF g.v = Undefined THEN [st |-> "throw"]
    ELSE LET r == saveWalk(g.v, path, i + 1, newValue) IN
         IF r.st = "ok"
         THEN [st |-> "ok", v |-> JsSet(cursor, path[i], r.v).v]
         ELSE r

\* a variant of saveWritten: the text is indented from column 2
saveWrittenFlat(w) ==
  IF w.st = "ok"
  THEN [st |-> "setContents", contents |-> StringifyAt(w.v, 2)]
  ELSE w

\* the end of the try block: the text is handed to setContents
saveWritten(w) ==
  IF w.st = "ok"
  THEN [st |-> "setContents", contents |-> JSON_stringify(w.v)]
  ELSE w

saveCloned(updated, path, newValue) ==
  IF ~updated.ok THEN [st |-> "throw"]
  ELSE saveWritten(saveWalk(updated.v, path, 1, newValue))

saveParsed2(root, path, newValue) ==
  IF ~root.ok THEN [st |-> "throw"]
  ELSE saveCloned(JSON_parse(JSON_stringify(root.v)), path, newValue)

\* the second try block of handleSave
saveTry(current, path, newValue) ==
  saveParsed2(IF ~IsBlank(current) THEN JSON_parse(current)
              ELSE [ok |-> TRUE, v |-> EmptyObj],
              path, newValue)

\* the catch block
saveCatch(outcome, newValue) ==
  IF outcome.st = "throw" THEN [st |-> "failed", newValue |-> newValue]
  ELSE [st |-> "setContents", contents |-> outcome.contents,
        newValue |-> newValue]

saveWithValue(current, path, newValue) ==
  saveCatch(saveTry(current, path, newValue), newValue)

\* a variant of handleSaveOutcome: the blank draft is looked at first
handleSaveOutcomeBlankFirst(node, text, current) ==
  IF Len(trim(text)) = 0 THEN [st |-> "empty", newValue |-> Undefined]
  ELSE IF node.isNull \/ ~node.path.def \/ Len(node.path.segs) = 0
  THEN [st |-> "early", newValue |-> Undefined]
  ELSE saveWithValue(current, node.path.segs, saveNewValue(text))

\* what a call does: "early" (no node, no path), "empty" (blank draft),
\* "setContents" with the new text, or "failed" (the catch block)
handleSaveOutcome(node, text, current) ==
  IF node.isNull \/ ~node.path.def \/ Len(node.path.segs) = 0
  THEN [st |-> "early", newValue |-> Undefined]
  ELSE IF Len(trim(text)) = 0 THEN [st |-> "empty", newValue |-> Undefined]
  ELSE saveWithValue(current, node.path.segs, saveNewValue(text))

saveEffect(o) ==
  /\ o.st = "setContents" => edits < MaxEdits
  /\ IF o.st = "early" THEN
       /\ isEditing' = FALSE
       /\ UNCHANGED <<contents, originalContent, draft, error, edits>>
     ELSE IF o.st = "empty" THEN
       /\ error' = Error("Content cannot be empty.")
       /\ UNCHANGED <<contents, isEditing, originalContent, draft, edits>>
     ELSE IF o.st = "setContents" THEN
       /\ contents' = o.contents
       /\ originalContent' = draft
       /\ draft' = draft
       /\ isEditing' = FALSE
       /\ error' = NoError
       /\ edits' = edits + 1
     ELSE
       /\ error' = Error("Failed to save changes.")
       /\ UNCHANGED <<contents, isEditing, originalContent, draft, edits>>
  /\ lastSave' = [op |-> "handleSave", st |-> o.st, newValue |-> o.newValue,
                  pre |-> [contents |-> contents, nodeData |-> nodeData,
                       isEditing |-> isEditing, draft |-> draft,
                       originalContent |-> originalContent, error |-> error]]

handleSave ==
  /\ isEditing
  /\ saveEffect(handleSaveOutcome(nodeData, draft, contents))
  /\ UNCHANGED <<storeVars, pathVars, nodeData, calls, last>>

(***************************************************************************)
(* The selected node and the left editor                                   *)
(***************************************************************************)
\* following a path from a value: Undefined when a step reads nothing
RECURSIVE ReadPath(_, _)
ReadPath(v, segs) ==
  IF Len(segs) = 0 THEN v
  ELSE LET g == JsGet(v, Head(segs)) IN
       IF ~g.ok \/ g.v = Undefined THEN Undefined
       ELSE ReadPath(g.v, Tail(segs))

TypeOf(v) ==
  CASE v.t = "obj" -> "object"
    [] v.t = "arr" -> "array"
    [] v.t = "str" -> "string"
    [] v.t = "num" -> "number"
    [] v.t = "bool" -> "boolean"
    [] OTHER -> "null"

IsContainer(v) == v.t \in {"obj", "arr"}

\* the paths of a document: a string segment per object key, a numeric one
\* per array index
RECURSIVE DocPaths(_)
DocPaths(v) ==
  {<<>>} \cup
  (CASE v.t = "obj" ->
          UNION {{<<StrSeg(v.keys[i])>> \o q : q \in DocPaths(v.vals[i])} :
                 i \in 1..Len(v.keys)}
     [] v.t = "arr" ->
          UNION {{<<NumSeg(i - 1)>> \o q : q \in DocPaths(v.items[i])} :
                 i \in 1..Len(v.items)}
     [] OTHER -> {})

\* the rows of the node of a value: one row per property of an object (a
\* nested object or array is a row without a value), one keyless row for a
\* scalar
NodeRows(v) ==
  IF v.t = "obj"
  THEN [i \in 1..Len(v.keys) |->
          Row(Key(v.keys[i]),
              IF IsContainer(v.vals[i]) THEN Undefined ELSE v.vals[i],
              TypeOf(v.vals[i]))]
  ELSE <<Row(NoKey, v, TypeOf(v))>>

NodesOf(doc) ==
  {Node(NodeRows(ReadPath(doc, q)), Path(q)) :
     q \in {r \in DocPaths(doc) : ReadPath(doc, r).t # "arr"}}

\* what the graph view may hand to the modal: no node, a node of the
\* document, or a node without a path
SelectableNodes(text) ==
  LET p == JSON_parse(text) IN
  {NullNode} \cup
  (IF p.ok THEN NodesOf(p.v) \cup {Node(NodeRows(p.v), NoPath)} ELSE {})

selectNode(node) ==
  /\ nodeData' = node
  /\ SyncEffect(node)
  /\ lastSave' = NoCall
  /\ UNCHANGED <<storeVars, pathVars, contents, isEditing, calls, edits, last>>

\* the left editor's text is replaced (typing, loading a file)
setContents(text) ==
  /\ contents' = text
  /\ edits' = 0
  /\ lastSave' = NoCall
  /\ UNCHANGED <<storeVars, pathVars, nodeData, isEditing, originalContent,
                 draft, error, calls, last>>

\* the modal's render of the JSON path
renderPath ==
  /\ pathText' = jsonPathToString(pathArg)
  /\ UNCHANGED <<storeVars, modalVars, pathArg, calls, edits, last, lastSave>>

(***************************************************************************)
(* Specifications                                                          *)
(***************************************************************************)
Init ==
  /\ json = initialStates.json
  /\ loading = initialStates.loading
  /\ graph = NoGraphCall
  /\ contents = <<"{", "}">>
  /\ nodeData = NullNode
  /\ isEditing = FALSE
  /\ originalContent = <<>>
  /\ draft = <<>>
  /\ error = NoError
  /\ pathArg = NoPath
  /\ pathText = <<>>
  /\ calls = 0
  /\ edits = 0
  /\ last = NoCall
  /\ lastSave = NoCall

\* the store
Next ==
  \/ \E j \in DocTexts : setJson(j)
  \/ clear
  \/ \E p \in PathInputs, v \in NewValues : updateValueAtPath(p, v)

Spec == Init /\ [][Next]_vars

\* the modal over the left editor
NextModal ==
  \/ \E text \in ModalTexts : setContents(text)
  \/ \E node \in SelectableNodes(contents) : selectNode(node)
  \/ handleEdit
  \/ \E text \in DraftInputs : setDraft(text)
  \/ handleSave
  \/ handleCancel
  \/ handleClose

SpecModal == Init /\ [][NextModal]_vars

\* jsonPathToString on every path of RenderInputs
InitPath ==
  /\ json = initialStates.json
  /\ loading = initialStates.loading
  /\ graph = NoGraphCall
  /\ contents = <<"{", "}">>
  /\ nodeData = NullNode
  /\ isEditing = FALSE
  /\ originalContent = <<>>
  /\ draft = <<>>
  /\ error = NoError
  /\ pathArg \in RenderInputs
  /\ pathText = <<>>
  /\ calls = 0
  /\ edits = 0
  /\ last = NoCall
  /\ lastSave = NoCall

NextPath == renderPath

SpecPath == InitPath /\ [][NextPath]_vars

\* the store and the modal together, on few inputs
RootTexts == {JSON_stringify(JObj(<<KeyA>>, <<JNum(1)>>)), <<>>, <<"{">>}
RootPaths == {NoPath, Path(<<>>), Path(<<StrSeg(KeyA)>>)}
RootDrafts == {<<>>, <<"7">>}

NextRoot ==
  \/ \E j \in RootTexts : setJson(j)
  \/ clear
  \/ \E p \in RootPaths : updateValueAtPath(p, JNum(7))
  \/ \E text \in RootTexts : setContents(text)
  \/ \E node \in SelectableNodes(contents) : selectNode(node)
  \/ handleEdit
  \/ \E text \in RootDrafts : setDraft(text)
  \/ handleSave
  \/ handleCancel
  \/ handleClose

SpecRoot == Init /\ [][NextRoot]_vars
(***************************************************************************)
(* Properties                                                              *)
(***************************************************************************)
Prefix(segs, n) == SubSeq(segs, 1, n)

\* every proper prefix of the path, the empty one included, leads to an
\* object or an array
ContainerPrefixes(doc, segs) ==
  \A n \in 0..(Len(segs) - 1) : IsContainer(ReadPath(doc, Prefix(segs, n)))

\* some segment before the last reads nothing in what the segments before
\* it lead to
EarlierSegmentAbsent(doc, segs) ==
  \E n \in 1..(Len(segs) - 1) :
    /\ ReadPath(doc, Prefix(segs, n - 1)) # Undefined
    /\ ReadPath(doc, Prefix(segs, n)) = Undefined

LastIsIndexOnArray(doc, segs) ==
  ReadPath(doc, Prefix(segs, Len(segs) - 1)).t = "arr"
    => IsArrayIndex(ToPropertyKey(segs[Len(segs)]))

IsUpdate == last.op = "updateValueAtPath"
IsSave == lastSave.op = "handleSave"

StoreUnchanged ==
  /\ json = last.pre.json
  /\ loading = last.pre.loading
  /\ graph = last.pre.graph

ReadsBack(new, segs, v) == new.ok /\ ReadPath(new.v, segs) = v

C1_Case(old, segs) ==
  /\ old.ok
  /\ Len(segs) > 0
  /\ ContainerPrefixes(old.v, segs)

\* C1 as stated: after updateValueAtPath(path, v) on a parseable document,
\* with a non-empty path whose proper prefixes lead to objects or arrays,
\* the stored json parses and following path in it yields v
C1_Original ==
  IsUpdate /\ last.path.def /\ C1_Case(JSON_parse(last.pre.json), last.path.segs)
    => ReadsBack(JSON_parse(json), last.path.segs, last.value)

C1_AmendedCase(old, segs) ==
  C1_Case(old, segs) /\ LastIsIndexOnArray(old.v, segs)

\* C1 as amended: the same, for a path whose last segment is an array index
\* (a non-negative integer or its decimal string) when its parent is an array
C1_RoundTrip ==
  IsUpdate /\ last.path.def
      /\ C1_AmendedCase(JSON_parse(last.pre.json), last.path.segs)
    => ReadsBack(JSON_parse(json), last.path.segs, last.value)

C1_Witness ==
  /\ IsUpdate /\ last.path.def /\ last.st = "setJson"
  /\ Len(last.path.segs) = 2
  /\ C1_AmendedCase(JSON_parse(last.pre.json), last.path.segs)
  /\ ReadPath(JSON_parse(last.pre.json).v, last.path.segs) # last.value

C2_Case(old, path) ==
  \/ ~old.ok
  \/ path.def /\ EarlierSegmentAbsent(old.v, path.segs)

\* C2: updateValueAtPath on a document that does not parse, or with a path of
\* which a segment before the last is absent, returns without raising and
\* leaves json, loading and the graph store as they were
C2_InvalidPathUnchanged ==
  IsUpdate /\ C2_Case(JSON_parse(last.pre.json), last.path)
    => last.st = "return" /\ StoreUnchanged

C2_WitnessCase(old, path) ==
  old.ok /\ path.def /\ EarlierSegmentAbsent(old.v, path.segs)

C2_Witness ==
  /\ IsUpdate /\ last.st = "return"
  /\ C2_WitnessCase(JSON_parse(last.pre.json), last.path)
  /\ json = last.pre.json

Bracketed(seg) ==
  <<"[">>
    \o (IF seg.k = "num" THEN NumberToString(seg.n)
        ELSE <<"\"">> \o seg.s \o <<"\"">>)
    \o <<"]">>

\* "$" followed, for each segment in order, by "[" + segment + "]"
RECURSIVE Accessor(_)
Accessor(segs) ==
  IF Len(segs) = 0 THEN <<"$">>
  ELSE Accessor(Prefix(segs, Len(segs) - 1)) \o Bracketed(segs[Len(segs)])

\* a numeric segment is written as the decimal digits of its value
DecimalOf(seg) ==
  seg.k = "num" =>
    /\ IsArrayIndex(NumberToString(seg.n))
    /\ StringToNumber(NumberToString(seg.n)) = seg.n

\* C3: jsonPathToString gives "$" for a missing or empty path, and otherwise
\* "$" followed by one bracketed segment per segment, numbers bare in
\* decimal and strings in double quotes
C3_BracketedAccessor ==
  pathText # <<>> =>
    /\ pathText = (IF pathArg.def THEN Accessor(pathArg.segs) ELSE <<"$">>)
    /\ \A n \in 1..Len(pathArg.segs) : DecimalOf(pathArg.segs[n])

C3_Witness ==
  /\ pathArg = Path(<<StrSeg(Fruits), NumSeg(0)>>)
  /\ pathText = <<"$", "[", "\"", "f", "r", "u", "i", "t", "s", "\"", "]",
                  "[", "0", "]">>

HasPath(node) == ~node.isNull /\ node.path.def /\ Len(node.path.segs) > 0

\* the document handleSave writes into: the parsed contents, {} for a blank
\* text
SaveRoot(text) ==
  IF IsBlank(text) THEN [ok |-> TRUE, v |-> EmptyObj] ELSE JSON_parse(text)

IntermediateAbsent(root, segs) ==
  root.ok /\ EarlierSegmentAbsent(root.v, segs)

SaveFailed(message) ==
  /\ lastSave.st \in {"empty", "failed"}
  /\ contents = lastSave.pre.contents
  /\ isEditing
  /\ draft = lastSave.pre.draft
  /\ originalContent = lastSave.pre.originalContent
  /\ error = Error(message)

SaveMessage(text) ==
  IF IsBlank(text) THEN "Content cannot be empty."
  ELSE "Failed to save changes."

\* C4 as stated: handleSave for a node with a path, with a blank draft, or
\* editor contents that JSON.parse rejects, or an absent intermediate
\* segment, leaves the document, isEditing, draft and originalContent alone
\* and sets the message
C4_Original ==
  /\ IsSave /\ HasPath(lastSave.pre.nodeData)
  /\ \/ IsBlank(lastSave.pre.draft)
     \/ ~JSON_parse(lastSave.pre.contents).ok
     \/ IntermediateAbsent(SaveRoot(lastSave.pre.contents),
                           lastSave.pre.nodeData.path.segs)
  => SaveFailed(SaveMessage(lastSave.pre.draft))

\* C4 as amended: the same, where the unparseable editor contents are not
\* blank (a blank text is taken for {} and saved into)
C4_FailedSave ==
  /\ IsSave /\ HasPath(lastSave.pre.nodeData)
  /\ \/ IsBlank(lastSave.pre.draft)
     \/ ~IsBlank(lastSave.pre.contents) /\ ~JSON_parse(lastSave.pre.contents).ok
     \/ IntermediateAbsent(SaveRoot(lastSave.pre.contents),
                           lastSave.pre.nodeData.path.segs)
  => SaveFailed(SaveMessage(lastSave.pre.draft))

C4_Witness ==
  /\ IsSave /\ HasPath(lastSave.pre.nodeData)
  /\ ~IsBlank(lastSave.pre.draft)
  /\ ~IsBlank(lastSave.pre.contents) /\ ~JSON_parse(lastSave.pre.contents).ok
  /\ error = Error("Failed to save changes.")
  /\ isEditing

\* C5: the last call on the graph store is setGraph with the stored json, or
\* clearGraph with the stored json empty; before any call the json is the
\* initial one; an updateValueAtPath that changed json called setJson
C5_GraphInSync ==
  /\ graph.op = "none" => json = initialStates.json /\ loading
  /\ graph.op = "setGraph" => graph.json = json /\ ~loading
  /\ graph.op = "clearGraph" => json = <<>> /\ ~loading
  /\ IsUpdate /\ json # last.pre.json =>
       last.st = "setJson" /\ graph = [op |-> "setGraph", json |-> json]

C5_Witness ==
  /\ IsUpdate /\ json # last.pre.json
  /\ last.pre.graph.op = "setGraph"
  /\ graph = [op |-> "setGraph", json |-> json]

\* both write the same text, or neither writes
SameWrite(u) ==
  /\ lastSave.st = "setContents" <=> u.st = "setJson"
  /\ lastSave.st = "setContents" => contents = u.json

ReachedWrite == IsSave /\ lastSave.st \in {"setContents", "failed"}

NoRootPath(path) == ~path.def \/ Len(path.segs) = 0

\* C7: updateValueAtPath with a missing or empty path, or on a blank json,
\* leaves json, loading and the graph alone; handleSave for no node or a
\* node with a missing or empty path only leaves the edit mode
C7_RootNotOverwritten ==
  /\ IsUpdate /\ (NoRootPath(last.path) \/ IsBlank(last.pre.json)) =>
       last.st = "return" /\ StoreUnchanged
  /\ IsSave /\ ~HasPath(lastSave.pre.nodeData) =>
       /\ lastSave.st = "early"
       /\ ~isEditing
       /\ contents = lastSave.pre.contents
       /\ error = lastSave.pre.error
       /\ draft = lastSave.pre.draft
       /\ originalContent = lastSave.pre.originalContent
       /\ nodeData = lastSave.pre.nodeData

C7_Witness ==
  /\ IsUpdate /\ last.path = Path(<<>>) /\ ~IsBlank(last.pre.json)
  /\ IsSave /\ ~lastSave.pre.nodeData.isNull
  /\ lastSave.pre.nodeData.path = Path(<<>>)
  /\ ~IsBlank(lastSave.pre.draft)
  /\ JSON_parse(contents).ok

\* the paths that read something in a value: a key or an index may be given
\* as a string or as a number; a string's characters are read one level deep
RECURSIVE ReadablePaths(_)
ReadablePaths(v) ==
  {<<>>} \cup
  (CASE v.t = "obj" ->
          UNION {{<<a>> \o q :
                    a \in {StrSeg(v.keys[i])} \cup
                          (IF IsArrayIndex(v.keys[i])
                           THEN {NumSeg(StringToNumber(v.keys[i]))} ELSE {}),
                    q \in ReadablePaths(v.vals[i])} :
                 i \in 1..Len(v.keys)}
     [] v.t = "arr" ->
          UNION {{<<a>> \o q :
                    a \in {NumSeg(i - 1), StrSeg(NumberToString(i - 1))},
                    q \in ReadablePaths(v.items[i])} :
                 i \in 1..Len(v.items)}
     [] v.t = "str" ->
          UNION {{<<NumSeg(i - 1)>>, <<StrSeg(NumberToString(i - 1))>>} :
                 i \in 1..Len(v.s)}
     [] OTHER -> {})

IsPrefix(a, b) == Len(a) <= Len(b) /\ Prefix(b, Len(a)) = a
\* the same, a number and its decimal string being the same segment
IsKeyPrefix(a, b) ==
  /\ Len(a) <= Len(b)
  /\ \A n \in 1..Len(a) : ToPropertyKey(a[n]) = ToPropertyKey(b[n])

Apart(p, q) == ~IsPrefix(p, q) /\ ~IsPrefix(q, p)
KeyApart(p, q) == ~IsKeyPrefix(p, q) /\ ~IsKeyPrefix(q, p)

OthersKept(old, new, p) ==
  \A q \in ReadablePaths(old) :
    Apart(p, q) => ReadPath(new, q) = ReadPath(old, q)

KeyOthersKept(old, new, p) ==
  \A q \in ReadablePaths(old) :
    KeyApart(p, q) => ReadPath(new, q) = ReadPath(old, q)

\* C8 as stated: after a successful updateValueAtPath(p, v), every path that
\* read a value in the old document and is neither a prefix nor an extension
\* of p reads the same value in the new one
C8_Original ==
  IsUpdate /\ last.st = "setJson" =>
    OthersKept(JSON_parse(last.pre.json).v, JSON_parse(json).v, last.path.segs)

\* C8 as amended: the same, a numeric segment and the string of its decimal
\* digits being one segment
C8_OthersKept ==
  IsUpdate /\ last.st = "setJson" =>
    KeyOthersKept(JSON_parse(last.pre.json).v, JSON_parse(json).v,
                  last.path.segs)

C8_WitnessCase(old, p) ==
  \E q \in ReadablePaths(old) : Len(q) = 2 /\ KeyApart(p, q)

C8_Witness ==
  /\ IsUpdate /\ last.st = "setJson" /\ json # last.pre.json
  /\ Len(last.path.segs) = 2
  /\ C8_WitnessCase(JSON_parse(last.pre.json).v, last.path.segs)

\* two trees with the same values, the order of an object's keys aside
RECURSIVE SameTree(_, _)
SameTree(a, b) ==
  IF a.t # b.t THEN FALSE
  ELSE CASE a.t = "obj" ->
              /\ Len(a.keys) = Len(b.keys)
              /\ \A i \in 1..Len(a.keys) :
                   /\ IndexOfKey(b.keys, a.keys[i]) # 0
                   /\ SameTree(a.vals[i], b.vals[IndexOfKey(b.keys, a.keys[i])])
         [] a.t = "arr" ->
              /\ Len(a.items) = Len(b.items)
              /\ \A i \in 1..Len(a.items) : SameTree(a.items[i], b.items[i])
         [] OTHER -> a = b

C9_Case(old, node, text) ==
  /\ old.ok
  /\ HasPath(node)
  /\ node \in NodesOf(old.v)
  /\ text = buildContentFromNode(node)

\* C9: Edit and then Save of the unmodified draft of a node of the document
\* writes a document with the same parsed tree, or writes nothing
C9_SaveUnmodifiedIsNoOp ==
  /\ IsSave
  /\ C9_Case(JSON_parse(lastSave.pre.contents), lastSave.pre.nodeData,
             lastSave.pre.draft)
  /\ lastSave.st = "setContents"
  => SameTree(JSON_parse(contents).v, JSON_parse(lastSave.pre.contents).v)

\* C10: an error is only shown in edit mode
C10_ErrorOnlyWhileEditing == ~error.isNull => isEditing

C10_Witness ==
  /\ ~error.isNull /\ isEditing
  /\ IsSave /\ lastSave.st = "failed"
  /\ lastSave.pre.error = Error("Content cannot be empty.")
====
